---- MODULE Spec2Model ----
(***************************************************************************)
(* Habit tracker: the calendar utility, the scheduling predicate, the      *)
(* streak walk and the store's mutation operations of                      *)
(* src/assets/js/app.js and src/assets/js/ui-components.js (HabitApp).     *)
(*                                                                         *)
(* A calendar date string "YYYY-MM-DD" is the record [y, m, d] of its      *)
(* three numbers; comparing two such strings is comparing the records      *)
(* lexicographically.  An instant (a JavaScript Date) is its number of     *)
(* minutes since 1970-01-01T00:00Z.  The zone tz is its offset from UTC in *)
(* minutes (daylight saving is left out: it moves the offset by an hour    *)
(* and never changes its sign).                                            *)
(***************************************************************************)
EXTENDS Integers, Sequences, FiniteSets, TLC

VARIABLES
    tz,        \* app.js:17, the zone every date is formatted in (offset, minutes)
    store,     \* HabitApp's store: [habits: array of records, completions: date -> array of ids]
    editing,   \* HabitApp's editing: the draft shown in the EditDialog, or closed
    date,      \* HabitApp's selected date
    nextId,    \* the identities uid() has handed out so far (the next fresh one)
    lastOp,    \* history: the operation that produced this state, with its arguments
    prev,      \* history: the store the last operation was applied to
    call,      \* the last call of a calendar function: its arguments and its result
    sk,        \* the frame of a running calcStreak call: its arguments, d, streak, pc
    disk,      \* localStorage[STORAGE_KEY]: the persisted store record
    loaded,    \* the value a loadStore() call returned
    tm,        \* TimerComponent: its state, its interval task, the last event (history)
    ls,        \* localStorage['timer-state'] and localStorage['timer-history']
    clock      \* Date.now(), in half seconds

ioVars == <<loaded, tm, ls, clock>>
vars == <<tz, store, editing, date, nextId, lastOp, prev, call, sk, disk, ioVars>>

(***************************************************************************)
(* Bounds of the model.                                                    *)
(***************************************************************************)
MaxDelta == 2

\* The zones the model runs in: behind UTC, UTC, ahead of UTC.
Zones == {-300, 0, 120}

MinPerDay == 24 * 60

Date(y, m, d) == [y |-> y, m |-> m, d |-> d]

(***************************************************************************)
(* The calendar as the claims speak of it: the day after, the day before   *)
(* and the day k days away, by the rules of the Gregorian calendar.        *)
(***************************************************************************)
RefLeap(y) == (y % 4 = 0 /\ y % 100 # 0) \/ y % 400 = 0

RefDaysInMonth(y, m) ==
    IF m = 2 THEN (IF RefLeap(y) THEN 29 ELSE 28)
    ELSE IF m \in {4, 6, 9, 11} THEN 30 ELSE 31

RefSucc(dt) ==
    IF dt.d < RefDaysInMonth(dt.y, dt.m) THEN Date(dt.y, dt.m, dt.d + 1)
    ELSE IF dt.m < 12 THEN Date(dt.y, dt.m + 1, 1)
    ELSE Date(dt.y + 1, 1, 1)

RefPred(dt) ==
    IF dt.d > 1 THEN Date(dt.y, dt.m, dt.d - 1)
    ELSE IF dt.m > 1 THEN Date(dt.y, dt.m - 1, RefDaysInMonth(dt.y, dt.m - 1))
    ELSE Date(dt.y - 1, 12, 31)

RECURSIVE RefShift(_, _)
RefShift(dt, k) ==
    IF k = 0 THEN dt
    ELSE IF k > 0 THEN RefShift(RefSucc(dt), k - 1)
    ELSE RefShift(RefPred(dt), k + 1)

\* The dates of the month of dt, first to last.
RefMonth(dt) == [i \in 1..RefDaysInMonth(dt.y, dt.m) |-> Date(dt.y, dt.m, i)]

\* "YYYY-MM-DD" string comparison.
DateLt(a, b) ==
    \/ a.y < b.y
    \/ a.y = b.y /\ a.m < b.m
    \/ a.y = b.y /\ a.m = b.m /\ a.d < b.d

(***************************************************************************)
(* JavaScript's Date, as the source uses it.                               *)
(***************************************************************************)
\* Days from 1970-01-01 to the civil date y-m-d (ECMAScript MakeDay on a
\* month 1..12 and a day of that month).
DaysFromCivil(y, m, d) ==
    LET yy  == IF m <= 2 THEN y - 1 ELSE y
        era == yy \div 400
        yoe == yy - era * 400
        mp  == IF m > 2 THEN m - 3 ELSE m + 9
        doy == (153 * mp + 2) \div 5 + d - 1
        doe == yoe * 365 + yoe \div 4 - yoe \div 100 + doy
    IN  era * 146097 + doe - 719468

\* The civil date of a day number (ECMAScript YearFromTime, MonthFromTime,
\* DateFromTime).
CivilFromDays(n) ==
    LET z   == n + 719468
        era == z \div 146097
        doe == z - era * 146097
        yoe == (doe - doe \div 1460 + doe \div 36524 - doe \div 146096) \div 365
        doy == doe - (365 * yoe + yoe \div 4 - yoe \div 100)
        mp  == (5 * doy + 2) \div 153
        d   == doy - (153 * mp + 2) \div 5 + 1
        m   == IF mp < 10 THEN mp + 3 ELSE mp - 9
        y   == yoe + era * 400
    IN  Date(IF m <= 2 THEN y + 1 ELSE y, m, d)

\* Date.UTC(y, monthIndex, day): the month index may be 12 and the day 0;
\* both carry over.
DateUTC(y, mi, d) ==
    (DaysFromCivil(y + mi \div 12, (mi % 12) + 1, 1) + (d - 1)) * MinPerDay

\* new Date(dateStr + "T00:00:00"): midnight of the date in the local zone.
LocalMidnight(dt) == DaysFromCivil(dt.y, dt.m, dt.d) * MinPerDay - tz

\* Date.prototype.getDay(): the weekday (0 = Sunday) in the local zone.
getDay(t) == (((t + tz) \div MinPerDay) + 4) % 7

\* isoDate(d): the calendar date of the instant t in the zone tz.
isoDate(t) == CivilFromDays((t + tz) \div MinPerDay)

\* addDays(dateStr, delta)
addDays(dateStr, delta) ==
    LET dt  == DateUTC(dateStr.y, dateStr.m - 1, dateStr.d)
        dt2 == dt + delta * MinPerDay          \* setUTCDate(getUTCDate() + delta)
    IN  isoDate(dt2)

\* The guard of monthRange's loop against running away (app.js:57).
MonthLoopCap == 40

RECURSIVE monthLoop(_, _, _)
monthLoop(days, d, endStr) ==
    LET pushed == Append(days, d)
    IN  IF d = endStr THEN pushed
        ELSE IF Len(pushed) > MonthLoopCap THEN pushed
        ELSE monthLoop(pushed, addDays(d, 1), endStr)

\* monthRange(dateStr)
monthRange(dateStr) ==
    LET first == Date(dateStr.y, dateStr.m, 1)
        start == LocalMidnight(first)
        end   == DateUTC(dateStr.y, dateStr.m, 0)
    IN  monthLoop(<<>>, isoDate(start), isoDate(end))

\* startOfWeek(dateStr, weekStartsOn)
startOfWeek(dateStr, weekStartsOn) ==
    LET t   == LocalMidnight(dateStr)
        day == (getDay(t) + 7 - weekStartsOn) % 7
    IN  addDays(isoDate(t), -day)

(***************************************************************************)
(* The store (HabitApp).  A habit is the record of the fields the logic    *)
(* reads: id, name, repeatDays, createdAt, order, archived (color and icon *)
(* are carried along untouched and are left out).  A name is the sequence  *)
(* of its characters.  An identity is a string; uid() hands out the next   *)
(* unused one.  A field that JavaScript reads as undefined holds the       *)
(* value below that no operation produces otherwise.                       *)
(***************************************************************************)
\* Bounds: the habits of the initial store, the identities uid() can hand
\* out, and the entries one ledger array may hold.
SeedCount == 2
MaxIds == 3
MaxDone == 2

IdName(i) == <<"h1", "h2", "h3", "h4", "h5", "h6", "h7", "h8">>[i]
Ids == {IdName(i) : i \in 1..MaxIds}

NoId == "undefined"
NoName == <<"undefined">>
NoDate == Date(0, 0, 0)

AllDays == 0..6
Dates == {Date(2024, 1, 4), Date(2024, 1, 5)}

Min(a, b) == IF a < b THEN a ELSE b
Max(a, b) == IF a > b THEN a ELSE b
Range(f) == {f[i] : i \in DOMAIN f}

\* The instant the model runs at: noon UTC of 2024-01-05.
Now == DateUTC(2024, 0, 5) + 720

\* String.prototype.trim on a name.
RECURSIVE trimStart(_)
trimStart(s) == IF s # <<>> /\ Head(s) = " " THEN trimStart(Tail(s)) ELSE s

RECURSIVE trimEnd(_)
trimEnd(s) ==
    IF s # <<>> /\ s[Len(s)] = " " THEN trimEnd(SubSeq(s, 1, Len(s) - 1)) ELSE s

trim(s) == trimEnd(trimStart(s))

\* !name || !name.trim()
isBlank(name) == name = <<>> \/ trim(name) = <<>>

\* new Set(array) read back as an array: first occurrences, in order.
RECURSIVE dedup(_)
dedup(s) ==
    IF s = <<>> THEN <<>>
    ELSE LET rest == dedup(SubSeq(s, 1, Len(s) - 1))
             last == s[Len(s)]
         IN  IF last \in Range(rest) THEN rest ELSE Append(rest, last)

\* Array.prototype.sort((a, b) => a.order - b.order): stable.
RECURSIVE insertByOrder(_, _)
insertByOrder(sorted, h) ==
    IF sorted = <<>> THEN <<h>>
    ELSE IF sorted[Len(sorted)].order <= h.order THEN Append(sorted, h)
    ELSE Append(insertByOrder(SubSeq(sorted, 1, Len(sorted) - 1), h), sorted[Len(sorted)])

RECURSIVE sortByOrder(_)
sortByOrder(hs) ==
    IF hs = <<>> THEN <<>>
    ELSE insertByOrder(sortByOrder(SubSeq(hs, 1, Len(hs) - 1)), hs[Len(hs)])

\* The start index Array.prototype.splice works from: a negative index
\* counts from the end, and both ends clamp.
spliceStart(len, i) == IF i < 0 THEN Max(len + i, 0) ELSE Min(i, len)

\* completions[d] || []
ledgerOf(s, d) == IF d \in DOMAIN s.completions THEN s.completions[d] ELSE <<>>

\* hasCompleted(store, date, habitId)
hasCompleted(s, d, habitId) ==
    d \in DOMAIN s.completions /\ habitId \in Range(s.completions[d])

\* isScheduled(h, date)
isScheduled(h, d) ==
    LET dow == getDay(LocalMidnight(d))
    IN  dow \in h.repeatDays /\ ~h.archived

\* The record { ...undefined, order: i } that reorder's map makes of the
\* undefined element splice(from, 1) yields when it removes nothing.
holeRecord(i) ==
    [id |-> NoId, name |-> NoName, repeatDays |-> {}, createdAt |-> NoDate,
     order |-> i, archived |-> FALSE]

\* A toggle that lost its delete branch: it only ever adds.
toggleAddOnly(s, habitId, d) ==
    LET list == dedup(ledgerOf(s, d))
        out  == IF habitId \in Range(list) THEN list ELSE Append(list, habitId)
    IN  [s EXCEPT !.completions =
            [x \in DOMAIN s.completions \cup {d} |->
                IF x = d THEN out ELSE s.completions[x]]]

\* toggle(h, d): the updater given to setStore.
toggle(s, habitId, d) ==
    LET list == dedup(ledgerOf(s, d))
        out  == IF habitId \in Range(list)
                THEN SelectSeq(list, LAMBDA x : x # habitId)
                ELSE Append(list, habitId)
    IN  [s EXCEPT !.completions =
            [x \in DOMAIN s.completions \cup {d} |->
                IF x = d THEN out ELSE s.completions[x]]]

\* A saveHabit without the lookup: it appends whatever it is given.
saveHabitAppendAlways(s, h) == [s EXCEPT !.habits = Append(s.habits, h)]

\* A saveHabit that moves the habit it replaces to the end.
saveHabitReplaceLast(s, h) ==
    [s EXCEPT !.habits = Append(SelectSeq(s.habits, LAMBDA x : x.id # h.id), h)]

\* saveHabit(h): the updater given to setStore.
saveHabit(s, h) ==
    LET exists == \E i \in DOMAIN s.habits : s.habits[i].id = h.id
    IN  [s EXCEPT !.habits =
            IF exists
            THEN [i \in DOMAIN s.habits |->
                    IF s.habits[i].id = h.id THEN h ELSE s.habits[i]]
            ELSE Append(s.habits, h)]

\* A deleteHabit that also strikes the id from the ledger.
deleteHabitPurge(s, id) ==
    [habits |-> SelectSeq(s.habits, LAMBDA h : h.id # id),
     completions |-> [x \in DOMAIN s.completions |->
                        SelectSeq(s.completions[x], LAMBDA e : e # id)]]

\* deleteHabit(id): the updater given to setStore.
deleteHabit(s, id) ==
    [habits |-> SelectSeq(s.habits, LAMBDA h : h.id # id),
     completions |-> s.completions]

\* A clearToday that empties the whole ledger.
clearEveryDay(s, d) ==
    [s EXCEPT !.completions = [x \in DOMAIN s.completions \cup {d} |-> <<>>]]

\* clearToday(): the updater given to setStore, for the selected date d.
clearToday(s, d) ==
    [s EXCEPT !.completions =
        [x \in DOMAIN s.completions \cup {d} |->
            IF x = d THEN <<>> ELSE s.completions[x]]]

\* A reorder that exchanges the two positions.
reorderSwap(s, from, to) ==
    LET hs == sortByOrder(s.habits)
        at(i) == IF i = from + 1 /\ to + 1 \in DOMAIN hs THEN hs[to + 1]
                 ELSE IF i = to + 1 /\ from + 1 \in DOMAIN hs THEN hs[from + 1]
                 ELSE hs[i]
    IN  [s EXCEPT !.habits = [i \in DOMAIN hs |-> [at(i) EXCEPT !.order = i - 1]]]

\* A reorder that moves the element and forgets to renumber.
reorderKeepOrder(s, from, to) ==
    LET hs     == sortByOrder(s.habits)
        n      == Len(hs)
        f      == spliceStart(n, from)
        gone   == f < n
        moved  == IF gone THEN hs[f + 1] ELSE holeRecord(0)
        rest   == IF gone
                  THEN SubSeq(hs, 1, f) \o SubSeq(hs, f + 2, n)
                  ELSE hs
        t      == spliceStart(Len(rest), to)
    IN  [s EXCEPT !.habits =
            SubSeq(rest, 1, t) \o <<moved>> \o SubSeq(rest, t + 1, Len(rest))]

\* reorder(from, to): the updater given to setStore.
reorder(s, from, to) ==
    LET hs     == sortByOrder(s.habits)
        n      == Len(hs)
        f      == spliceStart(n, from)
        gone   == f < n                        \* splice(from, 1) removed an element
        moved  == IF gone THEN hs[f + 1] ELSE holeRecord(0)
        rest   == IF gone
                  THEN SubSeq(hs, 1, f) \o SubSeq(hs, f + 2, n)
                  ELSE hs
        t      == spliceStart(Len(rest), to)
        placed == SubSeq(rest, 1, t) \o <<moved>> \o SubSeq(rest, t + 1, Len(rest))
        withOrder == [i \in DOMAIN placed |-> [placed[i] EXCEPT !.order = i - 1]]
    IN  [s EXCEPT !.habits = withOrder]

\* The draft startCreate() opens the dialog with.
newDraft(s, id) ==
    [id |-> id, name |-> <<>>, repeatDays |-> AllDays, createdAt |-> isoDate(Now),
     order |-> Len(s.habits), archived |-> FALSE]

\* The habits prop of TableView: HabitApp's habits (filter "all", empty
\* query, sorted by order) without the archived ones.
tableHabits(s) == SelectSeq(sortByOrder(s.habits), LAMBDA h : ~h.archived)

\* The habit handleAddHabit() builds from the quick-add input.
quickHabit(s, id, name, currentDate) ==
    [id |-> id, name |-> trim(name), repeatDays |-> AllDays, createdAt |-> currentDate,
     order |-> Len(tableHabits(s)), archived |-> FALSE]

\* loadStore()'s fallback store, with SeedCount of its habits.
seedStore ==
    [habits |-> [i \in 1..SeedCount |->
                    [id |-> IdName(i), name |-> <<"a">>, repeatDays |-> AllDays,
                     createdAt |-> isoDate(Now), order |-> i - 1, archived |-> FALSE]],
     completions |-> [x \in {} |-> <<>>]]

(***************************************************************************)
(* The persisted store record, localStorage[STORAGE_KEY].  A value of the  *)
(* key is absent, a text JSON.parse throws on, the JSON null or a scalar,  *)
(* or a JSON object: of an object the model keeps whether it has a habits  *)
(* array and a completions object, and for each habit whether it has an    *)
(* order.                                                                  *)
(***************************************************************************)
noLedger == [x \in {} |-> <<>>]
absentRecord ==
    [kind |-> "absent", hasHabits |-> FALSE, habits |-> <<>>,
     hasCompletions |-> FALSE, completions |-> noLedger]

\* A saveStore that writes the habits and leaves the ledger out.
stringifyHabitsOnly(s) ==
    [kind |-> "object", hasHabits |-> TRUE,
     habits |-> [i \in DOMAIN s.habits |-> [rec |-> s.habits[i], hasOrder |-> TRUE]],
     hasCompletions |-> FALSE, completions |-> noLedger]

\* JSON.stringify(store): every habit of a store in memory has an order.
JSONstringify(s) ==
    [kind |-> "object", hasHabits |-> TRUE,
     habits |-> [i \in DOMAIN s.habits |-> [rec |-> s.habits[i], hasOrder |-> TRUE]],
     hasCompletions |-> TRUE, completions |-> s.completions]

\* HabitApp's habits memo reads h.name.toLowerCase() of every record: on a
\* record without a name the render throws, and no handler runs after it.
renders(s) == \A h \in Range(s.habits) : h.name # NoName

\* useEffect(() => saveStore(store), [store]): the effect of the render
\* that follows a setStore.  A render that throws commits nothing and runs
\* no effect.
saveEffect(s, old) == IF renders(s) THEN JSONstringify(s) ELSE old

\* loadStore(): the value it returns, with whether that value has a
\* completions ledger.  JSON.parse throwing, parsed.habits of null and
\* .map of undefined all land in the catch, which returns the seeded store.
loadStore(raw) ==
    IF raw.kind # "object" \/ ~raw.hasHabits
    THEN [hasCompletions |-> TRUE, store |-> seedStore]
    ELSE [hasCompletions |-> raw.hasCompletions,
          store |-> [habits |-> [i \in DOMAIN raw.habits |->
                                    IF raw.habits[i].hasOrder THEN raw.habits[i].rec
                                    ELSE [raw.habits[i].rec EXCEPT !.order = i - 1]],
                     completions |-> raw.completions]]

notLoaded ==
    [done |-> FALSE, threw |-> FALSE, hasCompletions |-> FALSE,
     store |-> [habits |-> <<>>, completions |-> noLedger]]


(***************************************************************************)
(* The state machine of the store: one action per handler of HabitApp and  *)
(* of the components that call them.  The EditDialog covers the page while *)
(* it is open: its own handlers are then the only ones a click reaches.    *)
(* Of the dialog's inputs the name is modelled; its weekday, colour, emoji *)
(* and archive buttons change fields that no operation of the store reads  *)
(* (a habit is archived through OnArchive).                                *)
(* The store's operations read no zone; the machine runs in UTC.           *)
(***************************************************************************)
NoOp ==
    [op |-> "init", id |-> NoId, d |-> NoDate, from |-> 0, to |-> 0,
     h |-> holeRecord(0)]

closedDialog == [open |-> FALSE, h |-> holeRecord(0)]
noCall == [fn |-> "none", arg |-> NoDate, delta |-> 0, res |-> NoDate, days |-> <<>>]
noWalk ==
    [pc |-> "idle", habit |-> holeRecord(0), fromDate |-> NoDate, d |-> NoDate,
     streak |-> 0]

\* The names typed into the dialog and into the quick-add input.
DialogNames == {<<>>, <<" ">>, <<"a">>}
QuickNames == {<<" ">>, <<"a">>, <<" ", "a">>}

storeVars == <<store, editing, date, nextId, lastOp, prev, disk>>

StoreInit ==
    /\ store = seedStore
    /\ editing = closedDialog
    /\ date = isoDate(Now)
    /\ nextId = SeedCount + 1
    /\ lastOp = NoOp
    /\ prev = seedStore
    /\ disk = JSONstringify(seedStore)

\* The entries of the whole ledger.
RECURSIVE ledgerSize(_, _)
ledgerSize(s, ds) ==
    IF ds = {} THEN 0
    ELSE LET d == CHOOSE x \in ds : TRUE
         IN  Len(s.completions[d]) + ledgerSize(s, ds \ {d})

\* toggle(h, d), from a row's checkbox, a table cell or a number key.
Toggle(h, d) ==
    /\ ~editing.open
    /\ hasCompleted(store, d, h.id)
          \/ ledgerSize(store, DOMAIN store.completions) < MaxDone
    /\ store' = toggle(store, h.id, d)
    /\ disk' = saveEffect(store', disk)
    /\ lastOp' = [NoOp EXCEPT !.op = "toggle", !.id = h.id, !.d = d]
    /\ prev' = store
    /\ UNCHANGED <<ioVars, tz, editing, date, nextId, call, sk>>

\* startCreate()
StartCreate ==
    /\ ~editing.open
    /\ nextId <= MaxIds
    /\ editing' = [open |-> TRUE, h |-> newDraft(store, IdName(nextId))]
    /\ nextId' = nextId + 1
    /\ lastOp' = [NoOp EXCEPT !.op = "startCreate", !.id = IdName(nextId)]
    /\ prev' = store
    /\ UNCHANGED <<ioVars, tz, store, disk, date, call, sk>>

\* HabitRow's Edit button: setEditing(h)
OnEdit(h) ==
    /\ ~editing.open
    /\ editing' = [open |-> TRUE, h |-> h]
    /\ lastOp' = [NoOp EXCEPT !.op = "edit", !.id = h.id]
    /\ prev' = store
    /\ UNCHANGED <<ioVars, tz, store, disk, date, nextId, call, sk>>

\* EditDialog: the name input
SetDraftName(name) ==
    /\ editing.open
    /\ editing' = [editing EXCEPT !.h.name = name]
    /\ UNCHANGED <<ioVars, tz, store, disk, date, nextId, lastOp, prev, call, sk>>

\* The Save button is disabled on a blank name.
saveEnabled(draft) == ~isBlank(draft.name)

\* EditDialog: the Save button, onSave(draft) = saveHabit(draft)
EditSave ==
    /\ editing.open
    /\ saveEnabled(editing.h)
    /\ store' = saveHabit(store, editing.h)
    /\ disk' = saveEffect(store', disk)
    /\ editing' = closedDialog
    /\ lastOp' = [NoOp EXCEPT !.op = "saveHabit", !.id = editing.h.id, !.h = editing.h]
    /\ prev' = store
    /\ UNCHANGED <<ioVars, tz, date, nextId, call, sk>>

\* EditDialog: Cancel, Escape or a click outside, onClose()
EditClose ==
    /\ editing.open
    /\ editing' = closedDialog
    /\ UNCHANGED <<ioVars, tz, store, disk, date, nextId, lastOp, prev, call, sk>>

\* TableView: handleAddHabit(), onAddHabit = saveHabit
HandleAddHabit(name) ==
    /\ ~editing.open
    /\ nextId <= MaxIds
    /\ trim(name) # <<>>
    /\ LET h == quickHabit(store, IdName(nextId), name, date)
       IN  /\ store' = saveHabit(store, h)
           /\ lastOp' = [NoOp EXCEPT !.op = "saveHabit", !.id = h.id, !.h = h]
    /\ disk' = saveEffect(store', disk)
    /\ editing' = closedDialog
    /\ nextId' = nextId + 1
    /\ prev' = store
    /\ UNCHANGED <<ioVars, tz, date, call, sk>>

\* HabitRow's Archive button: saveHabit({ ...h, archived: !h.archived })
OnArchive(h) ==
    /\ ~editing.open
    /\ LET ha == [h EXCEPT !.archived = ~@]
       IN  /\ store' = saveHabit(store, ha)
           /\ lastOp' = [NoOp EXCEPT !.op = "setArchived", !.id = h.id, !.h = ha]
    /\ disk' = saveEffect(store', disk)
    /\ editing' = closedDialog
    /\ prev' = store
    /\ UNCHANGED <<ioVars, tz, date, nextId, call, sk>>

\* deleteHabit(id), confirmed
DeleteHabit(id) ==
    /\ ~editing.open
    /\ store' = deleteHabit(store, id)
    /\ disk' = saveEffect(store', disk)
    /\ lastOp' = [NoOp EXCEPT !.op = "deleteHabit", !.id = id]
    /\ prev' = store
    /\ UNCHANGED <<ioVars, tz, editing, date, nextId, call, sk>>

\* clearToday(), confirmed
ClearToday ==
    /\ ~editing.open
    /\ store' = clearToday(store, date)
    /\ disk' = saveEffect(store', disk)
    /\ lastOp' = [NoOp EXCEPT !.op = "clearDay", !.d = date]
    /\ prev' = store
    /\ UNCHANGED <<ioVars, tz, editing, date, nextId, call, sk>>

\* reorder(from, to)
Reorder(from, to) ==
    /\ ~editing.open
    /\ store' = reorder(store, from, to)
    /\ disk' = saveEffect(store', disk)
    /\ lastOp' = [NoOp EXCEPT !.op = "reorder", !.from = from, !.to = to]
    /\ prev' = store
    /\ UNCHANGED <<ioVars, tz, editing, date, nextId, call, sk>>

(***************************************************************************)
(* TimerComponent.  The wall clock Date.now() is counted in half seconds.  *)
(* A persisted timer-state record keeps whether the key is present and     *)
(* whether startTime is an instant or null.  The interval task is kept as  *)
(* whether intervalRef.current names a live interval, how many live        *)
(* intervals no reference names, and the half seconds since the interval   *)
(* was set or fired last.  Handlers run from discrete events: their render *)
(* and its effects complete before the next event or timer callback.       *)
(***************************************************************************)
MsPerUnit == 500
MsPerSec == 1000
TickMs == 1000
HistoryCap == 10

\* Bounds: the largest wall clock, the largest counter a tick still
\* increments, the sessions saved in the timer machine.
MaxClock == 6
MaxTime == 2
MaxSessions == 1

\* Bound: a restore is followed while the time it yields is within MaxSkew
\* of the counters the ticks reach.
MaxSkew == 1

noTimerState ==
    [present |-> FALSE, time |-> 0, isRunning |-> FALSE, hasStart |-> FALSE, startTime |-> 0]
noEvent ==
    [ev |-> "none", time |-> 0, isRunning |-> FALSE, rec |-> noTimerState, n |-> 0,
     history |-> <<>>]

\* The component before it is mounted and after it is unmounted.
tmDown(uids) ==
    [mounted |-> FALSE, time |-> 0, isRunning |-> FALSE, timerHistory |-> <<>>,
     refLive |-> FALSE, orphans |-> 0, sinceFire |-> 0, uids |-> uids, last |-> noEvent,
     ran |-> 0]

Take(q, n) == SubSeq(q, 1, Min(Len(q), n))

\* A saveTimerState that stamps startTime whatever the running flag is.
saveTimerStateStamped(currentTime, running, now) ==
    [present |-> TRUE, time |-> currentTime, isRunning |-> running,
     hasStart |-> TRUE, startTime |-> now]

\* saveTimerState(currentTime, running): the record it writes.
saveTimerState(currentTime, running, now) ==
    [present |-> TRUE, time |-> currentTime, isRunning |-> running,
     hasStart |-> running, startTime |-> IF running THEN now ELSE 0]

\* A time initializer that returns the persisted time as it is.
restoreTimeAsSaved(rec, now) == IF rec.present THEN rec.time ELSE 0

\* The initializer of time.
restoreTime(rec, now) ==
    IF ~rec.present THEN 0
    ELSE IF rec.isRunning /\ rec.hasStart /\ rec.startTime # 0
         THEN rec.time + (((now - rec.startTime) * MsPerUnit) \div MsPerSec)
         ELSE rec.time

\* The initializer of isRunning.
restoreRunning(rec) == rec.present /\ rec.isRunning

\* A cleanup that clears nothing.
intervalCleanupNone(t) == t

\* The interval effect's cleanup: clearInterval(intervalRef.current).
intervalCleanup(t) == [t EXCEPT !.refLive = FALSE, !.sinceFire = 0]

\* The interval effect's body, run at mount and when isRunning changed.
intervalBody(t) ==
    IF t.isRunning
    THEN [t EXCEPT !.orphans = IF t.refLive THEN @ + 1 ELSE @, !.refLive = TRUE,
                   !.sinceFire = 0]
    ELSE [t EXCEPT !.refLive = FALSE, !.sinceFire = 0]

\* The effects of the render that follows a handler: the interval effect
\* when isRunning changed, the timer-state effect when time or isRunning
\* changed.
afterRender(old, new) ==
    IF new.isRunning # old.isRunning THEN intervalBody(intervalCleanup(new)) ELSE new

\* A timer-state effect that keeps the anchor of a record that is running.
stateEffectKeepsAnchor(old, new, rec, now) ==
    IF new.time # old.time \/ new.isRunning # old.isRunning
    THEN IF rec.present /\ rec.isRunning /\ rec.hasStart /\ new.isRunning
         THEN [saveTimerState(new.time, new.isRunning, now) EXCEPT !.startTime = rec.startTime]
         ELSE saveTimerState(new.time, new.isRunning, now)
    ELSE rec

stateEffect(old, new, rec, now) ==
    IF new.time # old.time \/ new.isRunning # old.isRunning
    THEN saveTimerState(new.time, new.isRunning, now)
    ELSE rec

\* History: the event that has just been handled and the state it found.
event(name, n) ==
    [ev |-> name, time |-> tm.time, isRunning |-> tm.isRunning, rec |-> ls.state, n |-> n,
     history |-> tm.timerHistory]

IoInit ==
    /\ loaded = notLoaded
    /\ tm = tmDown(0)
    /\ ls = [state |-> noTimerState, history |-> <<>>]
    /\ clock = 1

\* TimerComponent is mounted: the three initializers, then the effects.
Mount ==
    /\ ~tm.mounted
    /\ restoreTime(ls.state, clock) \in (0 - MaxSkew)..(MaxTime + MaxSkew)
    /\ LET t0 == [tm EXCEPT !.mounted = TRUE,
                            !.time = restoreTime(ls.state, clock),
                            !.isRunning = restoreRunning(ls.state),
                            !.timerHistory = ls.history,
                            !.last = event("mount", 0)]
       IN  /\ tm' = intervalBody(t0)
           /\ ls' = [state |-> saveTimerState(t0.time, t0.isRunning, clock),
                     history |-> t0.timerHistory]
    /\ UNCHANGED <<tz, storeVars, call, sk, loaded, clock>>

\* "Hide Timer", or the page is closed: the effects' cleanups run and the
\* component's state is gone.
Unmount ==
    /\ tm.mounted
    /\ tm' = [intervalCleanup(tm) EXCEPT !.mounted = FALSE, !.time = 0,
                  !.isRunning = FALSE, !.timerHistory = <<>>, !.last = event("unmount", 0)]
    /\ UNCHANGED <<tz, storeVars, call, sk, loaded, ls, clock>>

\* startTimer()
StartTimer ==
    /\ tm.mounted /\ ~tm.isRunning
    /\ LET t1 == [tm EXCEPT !.isRunning = TRUE, !.last = event("start", 0)]
       IN  /\ tm' = afterRender(tm, t1)
           /\ ls' = [ls EXCEPT !.state = stateEffect(tm, t1, @, clock)]
    /\ UNCHANGED <<tz, storeVars, call, sk, loaded, clock>>

\* pauseTimer()
PauseTimer ==
    /\ tm.mounted /\ tm.isRunning
    /\ LET t1 == [tm EXCEPT !.isRunning = FALSE, !.last = event("pause", 0)]
       IN  /\ tm' = afterRender(tm, t1)
           /\ ls' = [ls EXCEPT !.state = stateEffect(tm, t1, @, clock)]
    /\ UNCHANGED <<tz, storeVars, call, sk, loaded, clock>>

\* The interval's callback, setTime(prevTime => prevTime + 1), no sooner
\* than TickMs after the interval was set or fired last; then the
\* timer-state effect of the render.
Tick ==
    /\ tm.refLive \/ tm.orphans > 0
    /\ tm.sinceFire * MsPerUnit >= TickMs
    /\ tm.time < MaxTime
    /\ LET t1 == [tm EXCEPT !.time = IF tm.mounted THEN @ + 1 ELSE @,
                            !.sinceFire = 0, !.last = event("tick", 0)]
       IN  /\ tm' = t1
           /\ ls' = [ls EXCEPT !.state = stateEffect(tm, t1, @, clock)]
    /\ UNCHANGED <<tz, storeVars, call, sk, loaded, clock>>

\* An entry that records no duration.
newEntryNoDuration(id, duration, now) ==
    [id |-> id, duration |-> 0, timestamp |-> now, date |-> isoDate(Now), note |-> <<>>]

\* The entry saveTimer() builds.
newEntry(id, duration, now) ==
    [id |-> id, duration |-> duration, timestamp |-> now, date |-> isoDate(Now),
     note |-> <<>>]

\* A saveTimer that prepends and keeps every entry.
insertEntryUncapped(entry, history) == <<entry>> \o history

\* [newEntry, ...prev].slice(0, 10)
insertEntry(entry, history) == Take(<<entry>> \o history, HistoryCap)

\* saveTimer(): with time > 0 the new entry, resetTimer() (which removes the
\* timer-state key), then the effects of the render; otherwise nothing.
SaveTimer(maxIds) ==
    /\ tm.mounted
    /\ tm.uids < maxIds
    /\ IF tm.time > 0
       THEN LET t1 == [tm EXCEPT !.timerHistory =
                                     insertEntry(newEntry(tm.uids + 1, tm.time, clock), @),
                                 !.isRunning = FALSE, !.time = 0,
                                 !.uids = @ + 1, !.last = event("save", tm.uids + 1),
                                 !.ran = 0]
            IN  /\ tm' = afterRender(tm, t1)
                /\ ls' = [state |-> stateEffect(tm, t1, noTimerState, clock),
                          history |-> t1.timerHistory]
       ELSE /\ tm' = [tm EXCEPT !.last = event("saveNothing", 0)]
            /\ ls' = ls
    /\ UNCHANGED <<tz, storeVars, call, sk, loaded, clock>>

\* A filter that keeps the entry it should drop and drops the others.
deleteHistoryEntryInverted(history, id) == SelectSeq(history, LAMBDA e : e.id = id)

\* deleteHistoryEntry(id): prev.filter(entry => entry.id !== id)
deleteHistoryEntry(history, id) == SelectSeq(history, LAMBDA e : e.id # id)

\* updateEntryNote(id, note): prev.map(entry => entry.id === id ? {...entry, note} : entry)
updateEntryNote(history, id, note) ==
    [i \in DOMAIN history |-> IF history[i].id = id THEN [history[i] EXCEPT !.note = note]
                              ELSE history[i]]

\* deleteHistoryEntry(id), then the history effect
DeleteHistoryEntry(id) ==
    /\ tm.mounted
    /\ tm' = [tm EXCEPT !.timerHistory = deleteHistoryEntry(@, id),
                        !.last = event("delete", id)]
    /\ ls' = [ls EXCEPT !.history = tm'.timerHistory]
    /\ UNCHANGED <<tz, storeVars, call, sk, loaded, clock>>

\* updateEntryNote(id, note), then the history effect
UpdateEntryNote(id, note) ==
    /\ tm.mounted
    /\ tm' = [tm EXCEPT !.timerHistory = updateEntryNote(@, id, note),
                        !.last = event("note", id)]
    /\ ls' = [ls EXCEPT !.history = tm'.timerHistory]
    /\ UNCHANGED <<tz, storeVars, call, sk, loaded, clock>>

\* The component half a second later.
elapse(t) ==
    [t EXCEPT !.sinceFire = IF t.refLive \/ t.orphans > 0
                            THEN Min(@ + 1, TickMs \div MsPerUnit) ELSE 0,
              !.last = noEvent]

\* Half a second passes.  A due callback may be late: the browser delays
\* the timers of a page in the background.
Advance(limit) ==
    /\ clock < limit
    /\ clock' = clock + 1
    /\ tm' = elapse(tm)
    /\ UNCHANGED <<tz, storeVars, call, sk, loaded, ls>>

\* The wall clock is set back half a second.
ClockBack ==
    /\ clock > 1
    /\ clock' = clock - 1
    /\ tm' = [tm EXCEPT !.last = noEvent]
    /\ UNCHANGED <<tz, storeVars, call, sk, loaded, ls>>

TimerNext ==
    \/ Mount
    \/ Unmount
    \/ StartTimer
    \/ PauseTimer
    \/ Tick
    \/ SaveTimer(MaxSessions)
    \/ Advance(MaxClock)
    \/ ClockBack

TimerInit ==
    /\ tz = 0
    /\ StoreInit
    /\ call = noCall
    /\ sk = noWalk
    /\ IoInit

SpecTimer == TimerInit /\ [][TimerNext]_vars

(***************************************************************************)
(* The session history, followed through more saves than it keeps          *)
(* entries: the timer is started, ticks and is saved, entries are deleted  *)
(* and noted.                                                              *)
(***************************************************************************)
\* Bounds: the sessions saved beyond the cap, the entries missing from the
\* history by deletion at a time.
ExtraSessions == 2
MaxDeleted == 1

HistIds == HistoryCap + ExtraSessions
HistClock == 1 + (HistIds + 1) * (TickMs \div MsPerUnit)

HistAdvance ==
    /\ tm.isRunning
    /\ tm.time = 0
    /\ tm.sinceFire * MsPerUnit < TickMs
    /\ Advance(HistClock)

\* A session is saved after its first tick.
HistTick ==
    /\ tm.time = 0
    /\ Tick

HistDelete(id) ==
    /\ Len(tm.timerHistory) + MaxDeleted > Min(tm.uids, HistoryCap)
    /\ DeleteHistoryEntry(id)

HistNote(id) ==
    /\ \A i \in DOMAIN tm.timerHistory : tm.timerHistory[i].note = <<>>
    /\ UpdateEntryNote(id, <<"n">>)

HistoryNext ==
    \/ Mount
    \/ StartTimer
    \/ HistAdvance
    \/ HistTick
    \/ SaveTimer(HistIds)
    \/ \E id \in 1..tm.uids : HistDelete(id)
    \/ \E id \in 1..tm.uids : HistNote(id)

SpecHistory == TimerInit /\ [][HistoryNext]_vars

Init ==
    /\ tz = 0
    /\ StoreInit
    /\ call = noCall
    /\ sk = noWalk
    /\ IoInit

Next ==
    \/ \E h \in Range(store.habits), d \in Dates : Toggle(h, d)
    \/ StartCreate
    \/ \E h \in Range(store.habits) : OnEdit(h)
    \/ \E name \in DialogNames : SetDraftName(name)
    \/ EditSave
    \/ EditClose
    \/ \E name \in QuickNames : HandleAddHabit(name)
    \/ \E h \in Range(store.habits) : OnArchive(h)
    \/ \E h \in Range(store.habits) : DeleteHabit(h.id)
    \/ ClearToday
    \/ \E from \in 0..(Len(store.habits) - 1), to \in 0..(Len(store.habits) - 1) :
            Reorder(from, to)

Spec == Init /\ [][Next]_vars

(***************************************************************************)
(* The operations called directly, with arguments no caller in the         *)
(* program checks first: saveHabit on a draft of any name, reorder on any  *)
(* pair of indices.                                                        *)
(***************************************************************************)
\* toggle(h, d)
ApiToggle(h, d) == renders(store) /\ Toggle(h, d)

\* deleteHabit(id)
ApiDeleteHabit(id) == renders(store) /\ DeleteHabit(id)

\* saveHabit(draft), the draft being createDraft()'s with a name typed in.
ApiSaveDraft(name) ==
    /\ renders(store)
    /\ nextId <= MaxIds
    /\ LET h == [newDraft(store, IdName(nextId)) EXCEPT !.name = name]
       IN  /\ store' = saveHabit(store, h)
           /\ lastOp' = [NoOp EXCEPT !.op = "saveHabit", !.id = h.id, !.h = h]
    /\ disk' = saveEffect(store', disk)
    /\ nextId' = nextId + 1
    /\ prev' = store
    /\ UNCHANGED <<ioVars, tz, editing, date, call, sk>>

\* reorder(from, to) with an index outside 0..N-1.
ApiReorder(from, to) ==
    /\ renders(store)
    /\ from \notin 0..(Len(store.habits) - 1) \/ to \notin 0..(Len(store.habits) - 1)
    /\ Reorder(from, to)

NextApi ==
    \/ \E h \in Range(store.habits), d \in Dates : ApiToggle(h, d)
    \/ \E h \in Range(store.habits) : ApiDeleteHabit(h.id)
    \/ \E name \in DialogNames : ApiSaveDraft(name)
    \/ \E from \in -1..(Len(store.habits) + 1), to \in -1..(Len(store.habits) + 1) :
            ApiReorder(from, to)

SpecApi == Init /\ [][NextApi]_vars

(***************************************************************************)
(* Properties of the store.                                                *)
(***************************************************************************)
orderValues(s) == {s.habits[i].order : i \in DOMAIN s.habits}
idsOf(s) == {s.habits[i].id : i \in DOMAIN s.habits}
dense(s) == orderValues(s) = 0..(Len(s.habits) - 1)
noDuplicate(arr) == \A i, j \in DOMAIN arr : arr[i] = arr[j] => i = j
inRange(s, i) == i \in 0..(Len(s.habits) - 1)
positionIn(hs, h) == CHOOSE i \in DOMAIN hs : hs[i] = h

\* C1: after any sequence of mutation operations from a store with dense
\* order values, the order values of all habits are exactly 0..N-1.
C1_OrderAlwaysDense == dense(store)

\* C2: right after reorder(from, to) with both indices in 0..N-1 the order
\* values are exactly 0..N-1, whatever they were before the call.
C2_ReorderMakesDense ==
    (lastOp.op = "reorder" /\ inRange(prev, lastOp.from) /\ inRange(prev, lastOp.to))
        => /\ dense(store)
           /\ Len(store.habits) = Len(prev.habits)

\* C2 witness: a reorder has just made dense a store whose order values
\* collided and left a gap.
C2_Witness ==
    /\ lastOp.op = "reorder"
    /\ Len(prev.habits) >= 2
    /\ Cardinality(orderValues(prev)) < Len(prev.habits)
    /\ ~dense(prev)
    /\ dense(store)

\* C3: toggleCompletion is its own inverse on the ledger set of its date,
\* one application flips the membership of the id, and the ledger array
\* never holds an id twice.
C3_ToggleInvolution ==
    /\ \A id \in Ids, d \in Dates :
          LET once  == toggle(store, id, d)
              twice == toggle(once, id, d)
          IN  /\ Range(ledgerOf(twice, d)) = Range(ledgerOf(store, d))
              /\ hasCompleted(once, d, id) <=> ~hasCompleted(store, d, id)
    /\ lastOp.op = "toggle" =>
          /\ hasCompleted(store, lastOp.d, lastOp.id)
                <=> ~hasCompleted(prev, lastOp.d, lastOp.id)
          /\ Range(ledgerOf(store, lastOp.d)) \ {lastOp.id}
                = Range(ledgerOf(prev, lastOp.d)) \ {lastOp.id}
    /\ \A d \in DOMAIN store.completions : noDuplicate(store.completions[d])

\* C3 witness: the second toggle of an id has emptied the ledger set of its
\* date: the entry is present and empty, where it was absent at first.
C3_Witness ==
    /\ lastOp.op = "toggle"
    /\ hasCompleted(prev, lastOp.d, lastOp.id)
    /\ lastOp.d \in DOMAIN store.completions
    /\ store.completions[lastOp.d] = <<>>

\* C4: deleteHabit(id) removes exactly the record with that id, keeps every
\* other record as it was and in its place, and leaves the ledger as it was,
\* entries of id included.
C4_DeleteFrame ==
    lastOp.op = "deleteHabit" =>
        /\ store.completions = prev.completions
        /\ lastOp.id \notin idsOf(store)
        /\ Range(store.habits) = {h \in Range(prev.habits) : h.id # lastOp.id}
        /\ Len(store.habits) =
              Len(prev.habits) - Cardinality({i \in DOMAIN prev.habits :
                                                prev.habits[i].id = lastOp.id})
        /\ \A i, j \in DOMAIN store.habits :
              i < j => positionIn(prev.habits, store.habits[i])
                         < positionIn(prev.habits, store.habits[j])

\* C4 witness: a habit with a completion has been deleted, and the ledger
\* still names it.
C4_Witness ==
    /\ lastOp.op = "deleteHabit"
    /\ lastOp.id \in idsOf(prev)
    /\ Len(store.habits) >= 1
    /\ \E d \in Dates : hasCompleted(store, d, lastOp.id)

\* C5: reorder(from, to) with an index outside 0..N-1 never changes the
\* number of records or the set of ids, never inserts a record without an
\* id, and leaves the order values dense and the ledger unchanged.
C5_OutOfRangeReorderSafe ==
    (lastOp.op = "reorder" /\ ~(inRange(prev, lastOp.from) /\ inRange(prev, lastOp.to)))
        => /\ Len(store.habits) = Len(prev.habits)
           /\ idsOf(store) = idsOf(prev)
           /\ NoId \notin idsOf(store) \/ NoId \in idsOf(prev)
           /\ dense(store)
           /\ store.completions = prev.completions

\* C6: saveHabit on a habit whose name is empty or all
\* whitespace changes nothing, so no habit of the store has such a name.
C6_SaveHabitRejectsBlank ==
    /\ (lastOp.op = "saveHabit" /\ isBlank(lastOp.h.name)) => store = prev
    /\ \A h \in Range(store.habits) : ~isBlank(h.name)

(***************************************************************************)
(* The calendar functions, called on dates drawn from two years (one of    *)
(* them a leap year) in each of the zones.                                 *)
(***************************************************************************)
CallYears == {2023, 2024}
DateInputs ==
    {Date(y, m, d) : y \in CallYears, m \in 1..12, d \in 1..31} \
        {dt \in [y : CallYears, m : 1..12, d : 1..31] : dt.d > RefDaysInMonth(dt.y, dt.m)}

DatesInit ==
    /\ tz \in Zones
    /\ call \in [fn : {"none"}, arg : DateInputs, delta : (-MaxDelta)..MaxDelta,
                 res : {NoDate}, days : {<<>>}]
    /\ StoreInit
    /\ sk = noWalk
    /\ IoInit

CallAddDays ==
    /\ call.fn = "none"
    /\ call' = [call EXCEPT !.fn = "addDays", !.res = addDays(call.arg, call.delta)]
    /\ UNCHANGED <<ioVars, tz, storeVars, sk>>

CallMonthRange ==
    /\ call.fn = "none"
    /\ call' = [call EXCEPT !.fn = "monthRange", !.days = monthRange(call.arg)]
    /\ UNCHANGED <<ioVars, tz, storeVars, sk>>

NextDates == CallAddDays \/ CallMonthRange

SpecDates == DatesInit /\ [][NextDates]_vars

\* C9: in every zone addDays(d, delta) is the calendar date exactly delta
\* whole days from d, and addDays(addDays(d, k), -k) = d.
C9_AddDaysExact ==
    call.fn = "addDays" =>
        /\ call.res = RefShift(call.arg, call.delta)
        /\ addDays(call.res, -call.delta) = call.arg

\* C10: in every zone monthRange(d) is the dates of the month of d from the
\* 1st to the last, each once, in increasing order.
C10_MonthRangeExact ==
    call.fn = "monthRange" => call.days = RefMonth(call.arg)

(***************************************************************************)
(* calcStreak(store, habit, fromDate), one action per iteration of its     *)
(* loop, on stores of one habit whose ledger is drawn from a window of     *)
(* days.                                                                   *)
(***************************************************************************)
\* The cap on the count that ends the loop (app.js:115).
StreakCap == 3650

\* Bounds: the days of the ledger window, which ends on 2024-01-05, and the
\* days below the window the walk is followed for.  Below the window no day
\* is completed and every day is before createdAt: a call still looping a
\* fortnight below it meets nothing it has not met already.
WindowDays == 6
FloorDays == 21

WindowEnd == Date(2024, 1, 5)
Window == {RefShift(WindowEnd, -k) : k \in 0..(WindowDays - 1)}
WindowStart == RefShift(WindowEnd, -(WindowDays - 1))
WalkFloor == RefShift(WindowStart, -FloorDays)

RepeatChoices == {{}, AllDays, 1..5}
CreatedChoices == {NoDate, Date(2024, 1, 1), Date(2024, 1, 3)}
FromDates == {Date(2024, 1, 2), Date(2024, 1, 5), Date(2024, 1, 8)}

streakHabit(repeatDays, createdAt, archived) ==
    [id |-> "h1", name |-> <<"a">>, repeatDays |-> repeatDays, createdAt |-> createdAt,
     order |-> 0, archived |-> archived]

StreakInit ==
    /\ tz \in Zones
    /\ \E rd \in RepeatChoices, c \in CreatedChoices, a \in BOOLEAN, done \in SUBSET Window :
          store = [habits |-> <<streakHabit(rd, c, a)>>,
                   completions |-> [d \in done |-> <<"h1">>]]
    /\ prev = store
    /\ disk = JSONstringify(store)
    /\ editing = closedDialog
    /\ date = isoDate(Now)
    /\ nextId = 2
    /\ lastOp = NoOp
    /\ call = noCall
    /\ sk = noWalk
    /\ IoInit

\* d < habit.createdAt: a comparison with undefined is false.
beforeCreated(h, d) == h.createdAt # NoDate /\ DateLt(d, h.createdAt)

\* let streak = 0; let d = fromDate;
StreakCall(fromDate) ==
    /\ sk.pc = "idle"
    /\ sk' = [pc |-> "loop", habit |-> store.habits[1], fromDate |-> fromDate,
              d |-> fromDate, streak |-> 0]
    /\ UNCHANGED <<ioVars, tz, storeVars, call>>

\* One pass through the body of while (true).
StreakIter ==
    /\ sk.pc = "loop"
    /\ ~DateLt(sk.d, WalkFloor)
    /\ LET scheduled == isScheduled(sk.habit, sk.d)
           done      == hasCompleted(store, sk.d, sk.habit.id)
           counted   == IF scheduled /\ done THEN sk.streak + 1 ELSE sk.streak
           before    == addDays(sk.d, -1)
       IN  sk' = IF scheduled /\ ~done THEN [sk EXCEPT !.pc = "done"]
                 ELSE IF beforeCreated(sk.habit, sk.d)
                      THEN [sk EXCEPT !.pc = "done", !.streak = counted]
                 ELSE IF before = sk.d
                      THEN [sk EXCEPT !.pc = "done", !.streak = counted]
                 ELSE IF counted > StreakCap
                      THEN [sk EXCEPT !.pc = "done", !.streak = counted, !.d = before]
                 ELSE [sk EXCEPT !.streak = counted, !.d = before]
    /\ UNCHANGED <<ioVars, tz, storeVars, call>>

NextStreak == (\E fromDate \in FromDates : StreakCall(fromDate)) \/ StreakIter

SpecStreak == StreakInit /\ [][NextStreak]_vars

\* The streak as the claims speak of it: the weekday of a date by counting
\* days from 2024-01-01, a Monday, and the walk back one calendar day at a
\* time.  Below the ledger window no day is completed, so nothing is added
\* there.
RECURSIVE refDiff(_, _)
refDiff(a, b) ==
    IF a = b THEN 0
    ELSE IF DateLt(a, b) THEN refDiff(RefSucc(a), b) + 1
    ELSE refDiff(RefPred(a), b) - 1

refWeekday(d) == (1 + refDiff(Date(2024, 1, 1), d)) % 7
refDue(h, d) == refWeekday(d) \in h.repeatDays /\ ~h.archived

RECURSIVE refStreak(_, _, _)
refStreak(s, h, d) ==
    IF DateLt(d, WindowStart) THEN 0
    ELSE IF refDue(h, d) /\ hasCompleted(s, d, h.id) THEN 1 + refStreak(s, h, RefPred(d))
    ELSE IF refDue(h, d) THEN 0
    ELSE refStreak(s, h, RefPred(d))

\* C7: streak(store, habit, fromDate) is the number of due-and-completed
\* days met walking back one calendar day at a time from fromDate to the
\* first day that is due and not completed.  Stated for the calls on which
\* the walk's stop at createdAt cannot matter: the habit has a createdAt and
\* the ledger holds nothing dated before it.
C7_StreakCountsBack ==
    (/\ sk.pc = "done"
     /\ sk.habit.createdAt # NoDate
     /\ \A d \in DOMAIN store.completions : ~DateLt(d, sk.habit.createdAt))
        => sk.streak = refStreak(store, sk.habit, sk.fromDate)

\* C8: calcStreak terminates on every input; no call is still in its loop
\* once the walk has gone below WalkFloor.
C8_StreakTerminates == sk.pc = "loop" => ~DateLt(sk.d, WalkFloor)

(***************************************************************************)
(* Properties of the timer.                                                *)
(***************************************************************************)
\* The whole seconds from instant a to instant b, a <= b.
wholeSeconds(a, b) ==
    CHOOSE k \in 0..MaxClock :
        /\ k * MsPerSec <= (b - a) * MsPerUnit
        /\ (b - a) * MsPerUnit < (k + 1) * MsPerSec
anchored(rec) == rec.present /\ rec.isRunning /\ rec.hasStart
liveIntervals == (IF tm.refLive THEN 1 ELSE 0) + tm.orphans
idle == tm.time = 0 /\ ~tm.isRunning /\ liveIntervals = 0

\* C11: a restore from a record that is running and has an anchor (not
\* later than now) yields the record's time plus the whole seconds from the
\* anchor to now, and the timer runs; any other restore yields the record's
\* time as it is, 0 when no record is persisted.
C11_RestoreAddsElapsed ==
    tm.last.ev = "mount" =>
        LET rec == tm.last.rec
        IN  IF anchored(rec)
            THEN clock >= rec.startTime =>
                    /\ tm.time = rec.time + wholeSeconds(rec.startTime, clock)
                    /\ tm.isRunning /\ tm.refLive
            ELSE /\ tm.time = IF rec.present THEN rec.time ELSE 0
                 /\ tm.isRunning = (rec.present /\ rec.isRunning)

\* C11 witness: a running timer with a positive time has been restored
\* more than a second after its anchor.
C11_Witness ==
    /\ tm.last.ev = "mount"
    /\ anchored(tm.last.rec)
    /\ tm.last.rec.time > 0
    /\ (clock - tm.last.rec.startTime) * MsPerUnit >= MsPerSec
    /\ tm.time > tm.last.rec.time

\* C12: a restore at a wall clock earlier than the anchor yields no less
\* than the persisted time, and the time is never negative.
C12_NegativeElapsedClamped ==
    /\ tm.mounted => tm.time >= 0
    /\ (tm.last.ev = "mount" /\ tm.last.rec.present) => tm.time >= tm.last.rec.time

\* C13: right after Pause the time is the time persisted with the anchor
\* plus the whole seconds from the anchor to the pause, the paused state is
\* persisted and its anchor is cleared.
C13_PauseAddsElapsed ==
    (tm.last.ev = "pause" /\ anchored(tm.last.rec) /\ clock >= tm.last.rec.startTime) =>
        /\ tm.time = tm.last.rec.time + wholeSeconds(tm.last.rec.startTime, clock)
        /\ ~tm.isRunning
        /\ ls.state.present /\ ~ls.state.isRunning /\ ~ls.state.hasStart
        /\ ls.state.time = tm.time

\* C14: after Reset and the effects it triggers the time is 0, the timer is
\* not running and no timer-state record is persisted.
C14_ResetErasesRecord ==
    tm.last.ev = "save" =>
        /\ tm.time = 0
        /\ ~tm.isRunning
        /\ ~ls.state.present

C16_SaveSession ==
    /\ tm.last.ev = "save" =>
          /\ tm.last.time > 0
          /\ Len(tm.timerHistory) = Min(Len(tm.last.history) + 1, HistoryCap)
          /\ tm.timerHistory[1].duration = tm.last.time
          /\ tm.timerHistory[1].note = <<>>
          /\ \A i \in DOMAIN tm.last.history : tm.last.history[i].id # tm.timerHistory[1].id
          /\ \A i \in 2..Len(tm.timerHistory) : tm.timerHistory[i] = tm.last.history[i - 1]
          /\ idle
          /\ ls.history = tm.timerHistory
    /\ tm.last.ev = "saveNothing" =>
          /\ tm.last.time <= 0
          /\ tm.timerHistory = tm.last.history
          /\ tm.time = tm.last.time /\ tm.isRunning = tm.last.isRunning
          /\ ls.state = tm.last.rec
    /\ \A i \in DOMAIN tm.timerHistory : tm.timerHistory[i].duration > 0
    /\ \A i \in DOMAIN ls.history : ls.history[i].duration > 0

\* C16 witness: a session has been saved from the running timer.
C16_Witness ==
    /\ tm.last.ev = "save"
    /\ tm.last.isRunning
    /\ tm.timerHistory[1].duration = MaxTime

\* C17: the history never holds more than 10 entries, a saved entry is at
\* its head, and a save into a full history drops exactly its last entry
\* and keeps the other 9 in their order.
C17_HistoryCapped ==
    /\ Len(tm.timerHistory) <= HistoryCap
    /\ Len(ls.history) <= HistoryCap
    /\ tm.last.ev = "save" =>
          /\ tm.timerHistory[1].id = tm.last.n
          /\ Len(tm.last.history) = HistoryCap =>
                tm.timerHistory =
                    <<tm.timerHistory[1]>> \o SubSeq(tm.last.history, 1, HistoryCap - 1)
    /\ \A i, j \in DOMAIN tm.timerHistory : i < j => tm.timerHistory[i].id > tm.timerHistory[j].id

\* C17 witness: a session has been saved into a history of 10 entries, one
\* of them noted, after an entry was deleted.
C17_Witness ==
    /\ tm.last.ev = "save"
    /\ Len(tm.last.history) = HistoryCap
    /\ tm.last.n = HistIds
    /\ \E i \in DOMAIN tm.timerHistory : tm.timerHistory[i].note # <<>>
    /\ \E i \in 1..(HistoryCap - 1) :
          tm.timerHistory[i].id > tm.timerHistory[i + 1].id + 1

\* C18: a persisted timer-state record has an anchor if and only if its
\* isRunning is true.
C18_AnchorIffRunning ==
    ls.state.present => (ls.state.hasStart <=> ls.state.isRunning)

\* C18 witness: the record written after a tick of the restored running
\* timer: running, with its anchor.
C18_Witness ==
    /\ tm.last.ev = "tick"
    /\ ls.state.present /\ ls.state.isRunning /\ ls.state.hasStart
    /\ ls.state.startTime = clock
    /\ ls.state.time = MaxTime

(***************************************************************************)
(* Properties of the persisted store.                                      *)
(***************************************************************************)
\* C19: after every operation the persisted store record is the store in
\* memory: loading it returns a store equal to the one in memory, habits
\* and ledger.
C19_PersistedIsMemory ==
    /\ disk.kind = "object"
    /\ loadStore(disk).hasCompletions
    /\ loadStore(disk).store = store

\* C19 witness: a toggle has just been persisted in a store that has grown
\* beyond the seeded one and has lost a habit.
C19_Witness ==
    /\ lastOp.op = "toggle"
    /\ hasCompleted(store, lastOp.d, lastOp.id)
    /\ ~dense(store)
    /\ Len(store.habits) >= SeedCount
    /\ disk.completions = store.completions

(***************************************************************************)
(* loadStore() on the values the storage key may hold, in each zone, and   *)
(* hasCompleted() on the store it returned.                                *)
(***************************************************************************)
\* Bound: the habits of a persisted record.
MaxStored == 2

storedHabit(i, n) ==
    [id |-> IdName(i), name |-> <<"a">>, repeatDays |-> AllDays,
     createdAt |-> Date(2024, 1, 1), order |-> n - i, archived |-> FALSE]
StoredHabits ==
    UNION {[1..n -> BOOLEAN] : n \in 0..MaxStored}
StoredLedgers == {noLedger, [d \in {Date(2024, 1, 4)} |-> <<"h1">>]}
PersistedValues ==
    {[absentRecord EXCEPT !.kind = k] : k \in {"absent", "garbage", "null"}}
    \cup {[absentRecord EXCEPT !.kind = "object", !.hasCompletions = TRUE, !.completions = c] :
             c \in StoredLedgers}
    \cup {[absentRecord EXCEPT !.kind = "object"]}
    \cup {[kind |-> "object", hasHabits |-> TRUE,
           habits |-> [i \in DOMAIN o |->
                          [rec |-> storedHabit(i, Len(o)), hasOrder |-> o[i]]],
           hasCompletions |-> TRUE, completions |-> c] :
             o \in StoredHabits, c \in StoredLedgers}
    \cup {[kind |-> "object", hasHabits |-> TRUE,
           habits |-> [i \in DOMAIN o |->
                          [rec |-> storedHabit(i, Len(o)), hasOrder |-> o[i]]],
           hasCompletions |-> FALSE, completions |-> noLedger] : o \in StoredHabits}

LoadInit ==
    /\ tz \in Zones
    /\ disk \in PersistedValues
    /\ store = seedStore
    /\ prev = seedStore
    /\ editing = closedDialog
    /\ date = isoDate(Now)
    /\ nextId = SeedCount + 1
    /\ lastOp = NoOp
    /\ call = noCall
    /\ sk = noWalk
    /\ IoInit

\* useState(() => loadStore())
CallLoadStore ==
    /\ ~loaded.done
    /\ loaded' = [done |-> TRUE, threw |-> FALSE,
                  hasCompletions |-> loadStore(disk).hasCompletions,
                  store |-> loadStore(disk).store]
    /\ store' = loadStore(disk).store
    /\ lastOp' = [NoOp EXCEPT !.op = "loadStore"]
    /\ UNCHANGED <<tz, editing, date, nextId, prev, disk, call, sk, tm, ls, clock>>

\* hasCompleted(store, date, habitId) on the loaded store, as the first
\* render calls it: store.completions[date] throws on a store without
\* completions.
CallHasCompleted ==
    /\ loaded.done
    /\ lastOp.op = "loadStore"
    /\ loaded' = [loaded EXCEPT !.threw = ~loaded.hasCompletions]
    /\ lastOp' = [NoOp EXCEPT !.op = "hasCompleted", !.d = date]
    /\ UNCHANGED <<tz, store, editing, date, nextId, prev, disk, call, sk, tm, ls, clock>>

LoadNext == CallLoadStore \/ CallHasCompleted

SpecLoad == LoadInit /\ [][LoadNext]_vars

wellShaped(raw) == raw.kind = "object" /\ raw.hasHabits /\ raw.hasCompletions

\* C20: loadStore never fails and always returns a store with habits and a
\* completions ledger; on a value that is absent or not of that shape it
\* returns the seeded store: every habit due every day, created today,
\* orders 0..N-1, an empty ledger.
C20_LoadAlwaysWellFormed ==
    loaded.done =>
        /\ loaded.hasCompletions
        /\ ~loaded.threw
        /\ ~wellShaped(disk) =>
              /\ loaded.store = seedStore
              /\ dense(loaded.store)
              /\ loaded.store.completions = noLedger
              /\ \A h \in Range(loaded.store.habits) :
                    h.repeatDays = AllDays /\ h.createdAt = CivilFromDays((Now + tz) \div MinPerDay)

(***************************************************************************)
(* The derivations HabitApp renders from the store.                        *)
(***************************************************************************)
\* HabitApp's habits: filter "all", empty query, sorted by order.
habitsMemo(s) == sortByOrder(s.habits)

\* A scheduled list that keeps the archived habits.
scheduledWithArchived(s, d) == SelectSeq(habitsMemo(s), LAMBDA h : isScheduled(h, d))

\* scheduledToday
scheduledToday(s, d) == SelectSeq(habitsMemo(s), LAMBDA h : isScheduled(h, d) /\ ~h.archived)

\* completedToday
completedToday(s, d) == SelectSeq(scheduledToday(s, d), LAMBDA h : hasCompleted(s, d, h.id))

\* Math.round((a / b) * 100), a >= 0 and b > 0
roundPct(a, b) == (200 * a + b) \div (2 * b)

\* A percentage of the ledger's entries of the day.
progressOfLedger(s, d) ==
    IF Len(scheduledToday(s, d)) > 0
    THEN roundPct(Len(ledgerOf(s, d)), Len(scheduledToday(s, d)))
    ELSE 0

\* progress
progress(s, d) ==
    IF Len(scheduledToday(s, d)) > 0
    THEN roundPct(Len(completedToday(s, d)), Len(scheduledToday(s, d)))
    ELSE 0

\* One day of weekPct: the same percentage over store.habits.
weekPct(s, d) ==
    LET sh == SelectSeq(s.habits, LAMBDA h : isScheduled(h, d) /\ ~h.archived)
        ch == SelectSeq(sh, LAMBDA h : hasCompleted(s, d, h.id))
    IN  IF Len(sh) > 0 THEN roundPct(Len(ch), Len(sh)) ELSE 0

\* C21: for every date the scheduled list holds only habits of the store
\* that are due and not archived, the completed list is part of it, and the
\* percentages are in 0..100, 0 when nothing is scheduled; after
\* deleteHabit(id) none of the lists holds id, whatever the ledger holds.
C21_DerivationsAfterDelete ==
    \A d \in Dates :
        /\ \A h \in Range(scheduledToday(store, d)) :
              h \in Range(store.habits) /\ ~h.archived /\ refWeekday(d) \in h.repeatDays
        /\ Range(completedToday(store, d)) \subseteq Range(scheduledToday(store, d))
        /\ progress(store, d) \in 0..100
        /\ weekPct(store, d) \in 0..100
        /\ weekPct(store, d) = progress(store, d)
        /\ scheduledToday(store, d) = <<>> => progress(store, d) = 0
        /\ lastOp.op = "deleteHabit" =>
              \A h \in Range(scheduledToday(store, d)) : h.id # lastOp.id

\* C21 witness: the habit just deleted was completed on a date, as is the
\* habit that remains scheduled, and the ledger still names both.
C21_Witness ==
    /\ lastOp.op = "deleteHabit"
    /\ \E d \in Dates :
          /\ hasCompleted(store, d, lastOp.id)
          /\ Len(ledgerOf(store, d)) > Len(scheduledToday(store, d))
          /\ Len(completedToday(store, d)) = 1
          /\ progress(store, d) = 100

(***************************************************************************)
(* deleteHabit and the archive switch called with a habit that may have    *)
(* left the store.                                                         *)
(***************************************************************************)
\* The records a caller can hold: those of the store and the seeded ones.
heldHabits == Range(store.habits) \cup Range(seedStore.habits)

\* toggle on a rendered habit
GoneToggle(h, d) == Toggle(h, d)

\* deleteHabit(id), the id in the store or not
GoneDelete(id) == DeleteHabit(id)

\* saveHabit({ ...h, archived: !h.archived }), h in the store or not
GoneArchive(h) == OnArchive(h)

NextGone ==
    \/ \E h \in Range(store.habits), d \in Dates : GoneToggle(h, d)
    \/ \E h \in heldHabits : GoneDelete(h.id)
    \/ \E h \in heldHabits : GoneArchive(h)

SpecGone == Init /\ [][NextGone]_vars

\* C22: deleting, archiving or unarchiving an id that is not in the store
\* leaves the store as it was; in particular no record is added.
C22_UnknownIdIsNoOp ==
    (lastOp.op \in {"deleteHabit", "setArchived"} /\ lastOp.id \notin idsOf(prev))
        => store = prev

(***************************************************************************)
(* Editing the timer history.                                              *)
(***************************************************************************)
holdsEntry(history, id) == \E i \in DOMAIN history : history[i].id = id

\* C23: deleting a history entry removes exactly the entry with that id and
\* keeps the others in their order; editing a note changes the note of that
\* entry and nothing else; either of them with an id the history does not
\* hold leaves the history as it was.  The persisted history follows.
C23_HistoryEditsAreLocal ==
    LET old == tm.last.history
        new == tm.timerHistory
        id == tm.last.n
    IN  /\ tm.last.ev = "delete" =>
              /\ ~holdsEntry(new, id)
              /\ ~holdsEntry(old, id) => new = old
              /\ holdsEntry(old, id) =>
                    /\ Len(new) = Len(old) - 1
                    /\ \A i \in DOMAIN old :
                          /\ old[i].id = id =>
                                (\A j \in 1..(i - 1) : new[j] = old[j])
                                /\ (\A j \in (i + 1)..Len(old) : new[j - 1] = old[j])
              /\ ls.history = new
        /\ tm.last.ev = "note" =>
              /\ Len(new) = Len(old)
              /\ ~holdsEntry(old, id) => new = old
              /\ \A i \in DOMAIN old :
                    /\ old[i].id # id => new[i] = old[i]
                    /\ old[i].id = id =>
                          /\ new[i].note = <<"n">>
                          /\ new[i] = [old[i] EXCEPT !.note = <<"n">>]
              /\ ls.history = new

\* C23 witness: an entry in the middle of a history of three or more, one
\* of them noted, has been deleted.
C23_Witness ==
    /\ tm.last.ev = "delete"
    /\ Len(tm.last.history) >= 3
    /\ \E i \in 2..(Len(tm.last.history) - 1) : tm.last.history[i].id = tm.last.n
    /\ \E i \in DOMAIN tm.timerHistory : tm.timerHistory[i].note # <<>>

(***************************************************************************)
(* Frame properties of the store's operations.                             *)
(***************************************************************************)
\* C24: every habit of the store has an id, and no two habits share one.
C24_IdsUnique ==
    /\ \A i \in DOMAIN store.habits : store.habits[i].id # NoId
    /\ \A i, j \in DOMAIN store.habits :
          store.habits[i].id = store.habits[j].id => i = j

\* C24 witness: a habit has been deleted, another created, and then an
\* existing habit was saved again from the dialog.
C24_Witness ==
    /\ lastOp.op = "saveHabit"
    /\ lastOp.id \in idsOf(prev)
    /\ IdName(1) \notin idsOf(store)
    /\ IdName(SeedCount + 1) \in idsOf(store)

withoutOrder(hs) == [i \in DOMAIN hs |-> [hs[i] EXCEPT !.order = 0]]
withoutIndex(hs, i) == SubSeq(hs, 1, i - 1) \o SubSeq(hs, i + 1, Len(hs))

\* C25: reorder(from, to) with both indices in range moves one element of
\* the habits sorted by order: the habit at from ends at position to, the
\* others keep their relative order, no field other than order changes, the
\* ledger is untouched, and reorder(i, i) leaves the sequence as it was.
C25_ReorderIsMove ==
    (lastOp.op = "reorder" /\ inRange(prev, lastOp.from) /\ inRange(prev, lastOp.to)) =>
        LET old == withoutOrder(sortByOrder(prev.habits))
            new == withoutOrder(sortByOrder(store.habits))
        IN  /\ Len(new) = Len(old)
            /\ new[lastOp.to + 1] = old[lastOp.from + 1]
            /\ withoutIndex(new, lastOp.to + 1) = withoutIndex(old, lastOp.from + 1)
            /\ Range(new) = Range(old)
            /\ store.completions = prev.completions
            /\ lastOp.from = lastOp.to => new = old

\* C25 witness: the first of three habits has been moved to the end, with a
\* completion in the ledger.
C25_Witness ==
    /\ lastOp.op = "reorder"
    /\ Len(prev.habits) = 3
    /\ lastOp.from = 0
    /\ lastOp.to = 2
    /\ \E d \in Dates : ledgerOf(store, d) # <<>>

\* C26: saveHabit(h) with a habit of the store's id replaces that habit
\* where it is and keeps the count; with any other id it appends h as the
\* last habit; every other habit and the ledger stay as they were.
C26_SaveHabitUpserts ==
    lastOp.op \in {"saveHabit", "setArchived"} =>
        /\ ~isBlank(lastOp.h.name)
        /\ lastOp.h.id = lastOp.id
        /\ lastOp.id \in idsOf(prev) =>
              /\ Len(store.habits) = Len(prev.habits)
              /\ \A i \in DOMAIN prev.habits :
                    store.habits[i] = IF prev.habits[i].id = lastOp.id THEN lastOp.h
                                      ELSE prev.habits[i]
        /\ lastOp.id \notin idsOf(prev) =>
              /\ Len(store.habits) = Len(prev.habits) + 1
              /\ store.habits[Len(store.habits)] = lastOp.h
              /\ \A i \in DOMAIN prev.habits : store.habits[i] = prev.habits[i]
        /\ store.completions = prev.completions

\* C26 witness: a changed record has been saved for the first of three
\* habits, with a completion in the ledger.
C26_Witness ==
    /\ lastOp.op \in {"saveHabit", "setArchived"}
    /\ Len(prev.habits) = 3
    /\ prev.habits[1].id = lastOp.id
    /\ prev.habits[1] # lastOp.h
    /\ \E d \in Dates : ledgerOf(store, d) # <<>>

\* C27: toggleCompletion(date, id) and clearDay(date) change the ledger's
\* list of that date only: the lists of the other dates and the habits stay
\* as they were, and after clearDay no habit is completed on the date.
C27_LedgerEditsAreLocal ==
    lastOp.op \in {"toggle", "clearDay"} =>
        /\ store.habits = prev.habits
        /\ DOMAIN store.completions = DOMAIN prev.completions \cup {lastOp.d}
        /\ \A x \in DOMAIN prev.completions :
              x # lastOp.d => store.completions[x] = prev.completions[x]
        /\ lastOp.op = "toggle" =>
              hasCompleted(store, lastOp.d, lastOp.id) # hasCompleted(prev, lastOp.d, lastOp.id)
        /\ lastOp.op = "clearDay" =>
              /\ ledgerOf(store, lastOp.d) = <<>>
              /\ \A id \in Ids : ~hasCompleted(store, lastOp.d, id)

\* C27 witness: a day with a completion has been cleared while another day
\* holds one.
C27_Witness ==
    /\ lastOp.op = "clearDay"
    /\ ledgerOf(prev, lastOp.d) # <<>>
    /\ \E x \in Dates : x # lastOp.d /\ ledgerOf(store, x) # <<>>

(***************************************************************************)
(* calcStreak and the habit's creation day.                                *)
(***************************************************************************)
\* The days of the ledger the walk may count: fromDate, and the days from
\* the day before createdAt on.
countable(s, h, fromDate) ==
    {d \in DOMAIN s.completions :
        d = fromDate \/ h.createdAt = NoDate \/ ~DateLt(d, RefPred(h.createdAt))}

\* C28: the walk examines at most one day before createdAt, and that day
\* is the day just before it or fromDate; when fromDate is before createdAt
\* only fromDate is examined; so the result counts no ledger entry dated
\* two or more days before createdAt, other than fromDate's.
C28_StopsAtCreation ==
    sk.habit.createdAt # NoDate =>
        /\ sk.pc = "loop" =>
              /\ sk.d = sk.fromDate \/ ~DateLt(sk.d, RefPred(sk.habit.createdAt))
              /\ DateLt(sk.fromDate, sk.habit.createdAt) => sk.d = sk.fromDate
        /\ sk.pc = "done" =>
              sk.streak <= Cardinality(countable(store, sk.habit, sk.fromDate))

(***************************************************************************)
(* TableView's drag and drop.  The rows are the habits prop, the habits    *)
(* that are not archived sorted by order, and a row's index is its         *)
(* position among them.                                                    *)
(***************************************************************************)
\* EditDialog: the Archive / Unarchive button
ToggleDraftArchived ==
    /\ editing.open
    /\ editing' = [editing EXCEPT !.h.archived = ~@]
    /\ UNCHANGED <<ioVars, tz, store, disk, date, nextId, lastOp, prev, call, sk>>

\* onDragStart on row i, then onDrop on row j: onReorder(dragIndex.current, index)
DragDrop(i, j) ==
    /\ ~editing.open
    /\ i # j
    /\ store' = reorder(store, i, j)
    /\ disk' = saveEffect(store', disk)
    /\ lastOp' = [NoOp EXCEPT !.op = "drop", !.id = tableHabits(store)[i + 1].id,
                              !.h = tableHabits(store)[j + 1], !.from = i, !.to = j]
    /\ prev' = store
    /\ UNCHANGED <<ioVars, tz, editing, date, nextId, call, sk>>

\* The store of an earlier session, in which habits may have been archived.
DragInit ==
    /\ tz = 0
    /\ \E arch \in [1..SeedCount -> BOOLEAN] :
          store = [seedStore EXCEPT !.habits =
                      [i \in 1..SeedCount |-> [seedStore.habits[i] EXCEPT !.archived = arch[i]]]]
    /\ prev = store
    /\ disk = JSONstringify(store)
    /\ editing = closedDialog
    /\ date = isoDate(Now)
    /\ nextId = SeedCount + 1
    /\ lastOp = NoOp
    /\ call = noCall
    /\ sk = noWalk
    /\ IoInit

DragNext ==
    \/ \E h \in Range(tableHabits(store)), d \in Dates : Toggle(h, d)
    \/ StartCreate
    \/ \E name \in DialogNames : SetDraftName(name)
    \/ ToggleDraftArchived
    \/ EditSave
    \/ EditClose
    \/ \E name \in QuickNames : HandleAddHabit(name)
    \/ \E i \in 0..(Len(tableHabits(store)) - 1), j \in 0..(Len(tableHabits(store)) - 1) :
            DragDrop(i, j)

SpecDrag == DragInit /\ [][DragNext]_vars

\* C29: after a row has been dragged onto another row of the table, the
\* dragged habit is at the position the other row had among the visible
\* habits, and every other habit of the store keeps its place relative to
\* the others, whatever the orders of the archived habits.
C29_DropMovesDraggedRow ==
    lastOp.op = "drop" =>
        LET rows == tableHabits(store)
            all == withoutOrder(sortByOrder(store.habits))
            was == withoutOrder(sortByOrder(prev.habits))
        IN  /\ Len(rows) = Len(tableHabits(prev))
            /\ rows[lastOp.to + 1].id = lastOp.id
            /\ SelectSeq(all, LAMBDA h : h.id # lastOp.id)
                  = SelectSeq(was, LAMBDA h : h.id # lastOp.id)

(***************************************************************************)
(* The timer under a wall clock that never goes back.  ran counts the      *)
(* half seconds the timer has been running since the last reset: while     *)
(* the component is mounted and isRunning, and while it is not mounted and *)
(* the persisted record is running.                                        *)
(***************************************************************************)
running == IF tm.mounted THEN tm.isRunning ELSE ls.state.present /\ ls.state.isRunning

\* Half a second passes.
MonoAdvance ==
    /\ clock < MaxClock
    /\ clock' = clock + 1
    /\ tm' = [elapse(tm) EXCEPT !.ran = IF running THEN @ + 1 ELSE @]
    /\ UNCHANGED <<tz, storeVars, call, sk, loaded, ls>>

MonoNext ==
    \/ Mount
    \/ Unmount
    \/ StartTimer
    \/ PauseTimer
    \/ Tick
    \/ SaveTimer(MaxSessions)
    \/ MonoAdvance

SpecMono == TimerInit /\ [][MonoNext]_vars

\* C30: with a wall clock that never goes back and ticks at least a second
\* apart, the time shown and the time persisted never exceed the whole
\* seconds the timer has been running since the last reset, restores
\* included.
C30_NeverOvercounts ==
    /\ tm.mounted => tm.time * MsPerSec <= tm.ran * MsPerUnit
    /\ ls.state.present => ls.state.time * MsPerSec <= tm.ran * MsPerUnit
    /\ tm.time >= 0

\* C30 witness: a restore from a running record that already held a tick's
\* second has added the seconds elapsed since the anchor.
C30_Witness ==
    /\ tm.last.ev = "mount"
    /\ anchored(tm.last.rec)
    /\ tm.last.rec.time >= 1
    /\ tm.time > tm.last.rec.time
    /\ tm.time * MsPerSec = tm.ran * MsPerUnit

====
